---- MODULE Spec2Model ----
(***************************************************************************)
(* cargo-resources: collate the resources declared by the crates of a      *)
(* dependency tree into the resource root of the consuming crate.          *)
(*                                                                         *)
(* The model follows src/src/main.rs and src/src/lib.rs: one run of the    *)
(* tool is main -> collate_resources, whose loops are stepped one          *)
(* iteration per action.  Paths are sequences of components, "/" being the *)
(* root component of an absolute path and ".." the parent component.  The  *)
(* file system holds directories, files (content and modification stamp)   *)
(* and directory symlinks.                                                 *)
(***************************************************************************)
EXTENDS Integers, Sequences, FiniteSets, TLC

VARIABLES
    args_package,        \* main.rs: ResourceArgs.package (an Option: {} or {path})
    metadata,            \* cargo_metadata::Metadata of the consuming crate
    fs,                  \* the file system: [dirs, files, links]
    pc,                  \* position of the run inside main / collate_resources
    run,                 \* number of the current invocation of the tool
    packages_by_id,      \* get_package_details: is_dependency per package
    processed_packages,  \* get_package_details: the set of done nodes
    pending_nodes,       \* get_package_details: the stack of pending nodes
    child_packages,      \* collate_resources: in-scope packages not yet scanned
    declared_resources,  \* collate_resources: the Declaration Registry
    resource_root,       \* collate_resources: the output root
    required_resources,  \* collate_resources: the requirements still to process
    resolved_resources,  \* collate_resources: the specifications synchronized
    stdout,              \* the notifications printed by this run
    result,              \* the value main returns: Running, Ok or an error
    history              \* file system and stdout at the end of earlier runs

vars == << args_package, metadata, fs, pc, run, packages_by_id,
           processed_packages, pending_nodes, child_packages,
           declared_resources, resource_root, required_resources,
           resolved_resources, stdout, result, history >>

\* Bounds of the model.
MaxRuns == 2
MaxRequires == 2
MaxDeps == 2

(***************************************************************************)
(* Options and paths (camino::Utf8PathBuf)                                 *)
(***************************************************************************)
None == {}
Some(x) == {x}
unwrap_or(opt, default) == IF opt = {} THEN default ELSE CHOOSE x \in opt : TRUE

is_absolute(p) == Len(p) > 0 /\ p[1] = "/"

\* Utf8Path::join: an absolute argument replaces the path.
join(base, p) == IF is_absolute(p) THEN p ELSE base \o p

\* Utf8Path::parent: None for the empty path and for the root.
has_parent(p) == Len(p) > 0 /\ p # << "/" >>
parent(p) == SubSeq(p, 1, Len(p) - 1)

\* Utf8Path::file_name: None when the path ends in "..".
file_name(p) ==
    IF Len(p) = 0 \/ p[Len(p)] = ".." \/ p[Len(p)] = "/" THEN None
    ELSE Some(p[Len(p)])

\* Utf8Path::starts_with compares whole components.
starts_with(p, base) ==
    Len(base) <= Len(p) /\ SubSeq(p, 1, Len(base)) = base

(***************************************************************************)
(* The file system                                                         *)
(***************************************************************************)
Cwd == << "/", "w" >>

\* Walk the components of a path from a canonical directory, following
\* ".." and directory symlinks, as the kernel resolves a path.
RECURSIVE Walk(_, _, _)
Walk(links, cur, rest) ==
    IF rest = << >> THEN cur
    ELSE LET c == Head(rest)
             n == Append(cur, c)
         IN  IF c = ".."
             THEN Walk(links, IF Len(cur) > 1 THEN parent(cur) ELSE cur, Tail(rest))
             ELSE Walk(links, IF n \in DOMAIN links THEN links[n] ELSE n, Tail(rest))

\* The canonical location a path names (std::env::current_dir is Cwd).
Resolve(f, p) ==
    IF is_absolute(p) THEN Walk(f.links, << "/" >>, Tail(p))
    ELSE Walk(f.links, Cwd, p)

Prefixes(p) == { SubSeq(p, 1, k) : k \in 1..Len(p) }

\* Every directory on the way to the last component of p exists.
Reachable(f, p) == \A q \in Prefixes(p) : q # p => Resolve(f, q) \in f.dirs

\* Utf8Path::exists: the empty path names nothing.
exists(f, p) ==
    /\ Len(p) > 0
    /\ Reachable(f, p)
    /\ Resolve(f, p) \in f.dirs \cup DOMAIN f.files

\* Utf8Path::is_dir
is_dir(f, p) == exists(f, p) /\ Resolve(f, p) \in f.dirs

\* The directory a new file of path p would be created in exists.
InDirectory(f, p) == Reachable(f, p) /\ Resolve(f, parent(p)) \in f.dirs

\* A variant of canonicalize_utf8 that makes the path absolute without
\* resolving its ".." components and symlinks.
absolute_utf8(f, p) ==
    IF exists(f, p)
    THEN [ok |-> TRUE, path |-> IF is_absolute(p) THEN p ELSE Cwd \o p]
    ELSE [ok |-> FALSE, path |-> << >>]

\* Utf8Path::canonicalize_utf8: fails on a path that does not exist.
canonicalize_utf8(f, p) ==
    IF exists(f, p) THEN [ok |-> TRUE, path |-> Resolve(f, p)]
    ELSE [ok |-> FALSE, path |-> << >>]

\* fs::create_dir_all: make every missing directory on the way; fails when
\* a component is an existing file.
create_dir_all(f, p) ==
    LET made == { Resolve(f, q) : q \in Prefixes(p) }
    IN  IF made \cap DOMAIN f.files # {}
        THEN [ok |-> FALSE, fs |-> f]
        ELSE [ok |-> TRUE, fs |-> [f EXCEPT !.dirs = @ \cup made]]

\* lib.rs create_output_directory
create_output_directory(f, output_dir) ==
    IF ~exists(f, output_dir) THEN create_dir_all(f, output_dir)
    ELSE [ok |-> TRUE, fs |-> f]

\* The bytes of a file, without its modification stamp.
Bytes(file) == [data |-> file.data, json |-> file.json]

\* hex::encode of a SHA-256 digest: a lower-case hex string that names the
\* bytes it was computed from (the digest is collision resistant).
hex_encode(bytes) == << "sha256", bytes.data, bytes.json >>

\* lib.rs get_file_sha: fails when the file cannot be opened or read.
get_file_sha(f, p) ==
    IF exists(f, p) /\ Resolve(f, p) \in DOMAIN f.files
    THEN [ok |-> TRUE, sha |-> hex_encode(Bytes(f.files[Resolve(f, p)]))]
    ELSE [ok |-> FALSE, sha |-> << >>]

\* Writing `bytes` to the canonical location `loc` (fs::copy, fs::write):
\* the content is replaced and the modification stamp advances.
WriteFile(f, loc, bytes) ==
    LET stamp == IF loc \in DOMAIN f.files THEN f.files[loc].mtime + 1 ELSE 1
        new == [data |-> bytes.data, json |-> bytes.json, mtime |-> stamp]
    IN  [f EXCEPT !.files =
            [l \in DOMAIN f.files \cup {loc} |->
                IF l = loc THEN new ELSE f.files[l]]]

\* fs::copy(from, to): fails when the source cannot be read, when the
\* directory of the target is missing or when the target is a directory.
fs_copy(f, from, to) ==
    IF /\ exists(f, from) /\ Resolve(f, from) \in DOMAIN f.files
       /\ has_parent(to) /\ InDirectory(f, to)
       /\ Resolve(f, to) \notin f.dirs
    THEN [ok |-> TRUE,
          fs |-> WriteFile(f, Resolve(f, to), Bytes(f.files[Resolve(f, from)]))]
    ELSE [ok |-> FALSE, fs |-> f]

\* fs::write(path, contents)
fs_write(f, p, bytes) ==
    IF has_parent(p) /\ InDirectory(f, p) /\ Resolve(f, p) \notin f.dirs
    THEN [ok |-> TRUE, fs |-> WriteFile(f, Resolve(f, p), bytes)]
    ELSE [ok |-> FALSE, fs |-> f]

(***************************************************************************)
(* Results, notifications and resource specifications                      *)
(***************************************************************************)
Running == [kind |-> "Running", error |-> "", name |-> ""]
Ok == [kind |-> "Ok", error |-> "", name |-> ""]
\* Err(String): the kind of message and the crate, resource or path it names.
Err(e, n) == [kind |-> "Err", error |-> e, name |-> n]
\* A panic (expect, unwrap, panic!) ends the process as well.
Panic(e) == [kind |-> "Panic", error |-> e, name |-> ""]

\* One println! of the run.
Event(ev, name, existed, sha, path, replaced) ==
    [ev |-> ev, name |-> name, existed |-> existed, sha |-> sha,
     path |-> path, replaced |-> replaced]
NoResourcesFound == Event("no_resources", "", FALSE, << >>, << >>, << >>)
DuplicateResource(name, replaced, with) ==
    Event("duplicate", name, FALSE, << >>, with, replaced)
ResourceCollection(already_exists, new_sha, output_path) ==
    Event("collected", "", already_exists, new_sha, output_path, << >>)

\* specifications.rs ResourceSpecification
ResourceSpecification(package, encoding, full_crate_path, output_path, name) ==
    [declaring_crate_name |-> package.name,
     declaring_crate_version |-> package.version,
     encoding |-> encoding,
     full_crate_path |-> full_crate_path,
     output_path |-> output_path,
     resource_name |-> name]

\* specifications.rs ResourceRequirement
ResourceRequirement(name, sha) == [resource_name |-> name, required_sha |-> sha]

\* A variant of Insert that keeps the value a key already has.
InsertIfAbsent(map, key, value) ==
    [k \in DOMAIN map \cup {key} |-> IF k \in DOMAIN map THEN map[k] ELSE value]

\* HashMap::insert
Insert(map, key, value) ==
    [k \in DOMAIN map \cup {key} |-> IF k = key THEN value ELSE map[k]]

\* A variant of ProvidesEntries without the checks of lib.rs 180-198 that
\* the declared paths are relative.
RECURSIVE ProvidesEntriesUnchecked(_, _, _, _)
ProvidesEntriesUnchecked(package, entries, resources, out) ==
    IF entries = << >> THEN [result |-> Ok, resources |-> resources, out |-> out]
    ELSE
    LET declaration == Head(entries)
        stop(r) == [result |-> r, resources |-> resources, out |-> out]
    IN
    IF declaration.malformed THEN stop(Err("Malformed resource declaration", package.name))
    ELSE
    LET resolved_output_path == unwrap_or(declaration.output_path, declaration.crate_path)
        name_of_file == file_name(declaration.crate_path)
    IN
    IF name_of_file = None THEN stop(Panic("Illegal resource name"))
    ELSE
    LET resolved_name == unwrap_or(declaration.resource_name, unwrap_or(name_of_file, ""))
        full_source_path == join(parent(package.manifest_path), declaration.crate_path)
        data == ResourceSpecification(package,
                    unwrap_or(declaration.encoding, "Txt"),
                    full_source_path, resolved_output_path, resolved_name)
        warned == IF resolved_name \in DOMAIN resources
                  THEN Append(out, DuplicateResource(resolved_name,
                            resources[resolved_name].full_crate_path,
                            data.full_crate_path))
                  ELSE out
    IN  ProvidesEntriesUnchecked(package, Tail(entries),
                                 Insert(resources, resolved_name, data), warned)

(***************************************************************************)
(* lib.rs get_package_resource_data: the declarations of one package go    *)
(* into the registry, a later one replacing an earlier one of its name.    *)
(***************************************************************************)
RECURSIVE ProvidesEntries(_, _, _, _)
ProvidesEntries(package, entries, resources, out) ==
    IF entries = << >> THEN [result |-> Ok, resources |-> resources, out |-> out]
    ELSE
    LET declaration == Head(entries)
        stop(r) == [result |-> r, resources |-> resources, out |-> out]
    IN
    IF declaration.malformed THEN stop(Err("Malformed resource declaration", package.name))
    ELSE
    LET resolved_output_path == unwrap_or(declaration.output_path, declaration.crate_path)
        name_of_file == file_name(declaration.crate_path)
    IN
    IF name_of_file = None THEN stop(Panic("Illegal resource name"))
    ELSE
    LET resolved_name == unwrap_or(declaration.resource_name, unwrap_or(name_of_file, ""))
    IN
    IF is_absolute(declaration.crate_path)
    THEN stop(Err("absolute resource path", package.name))
    ELSE IF is_absolute(resolved_output_path)
    THEN stop(Err("absolute output path", package.name))
    ELSE
    LET full_source_path == join(parent(package.manifest_path), declaration.crate_path)
        data == ResourceSpecification(package,
                    unwrap_or(declaration.encoding, "Txt"),
                    full_source_path, resolved_output_path, resolved_name)
        warned == IF resolved_name \in DOMAIN resources
                  THEN Append(out, DuplicateResource(resolved_name,
                            resources[resolved_name].full_crate_path,
                            data.full_crate_path))
                  ELSE out
    IN  ProvidesEntries(package, Tail(entries),
                        Insert(resources, resolved_name, data), warned)

get_package_resource_data(package, resources, out) ==
    LET section == package.cargo_resources
        same == [result |-> Ok, resources |-> resources, out |-> out]
    IN  IF section.kind # "object" THEN same
        ELSE IF section.provides.kind = "array"
        THEN ProvidesEntries(package, section.provides.entries, resources, out)
        ELSE IF section.provides.kind = "null" THEN same
        ELSE [same EXCEPT !.result = Err("unexpected type for provides", "")]

(***************************************************************************)
(* lib.rs get_resource_requirement.  `values` is the order in which        *)
(* HashMap::values yields the registry.                                    *)
(***************************************************************************)
DefaultResourceRoot == << "target", "resources" >>

\* The fields of a ResourceRequirementDeclaration: declarations.rs 32-35
\* declares resource_name alone, lib.rs 275 reads required_sha of it as well.
\* The source does not settle which of the two the deserialized value has,
\* so a run follows either.
RequirementFields ==
    { {"resource_name"}, {"resource_name", "required_sha"} }

\* serde_json::from_value (lib.rs 257) of the entries of `requires`: a key
\* the structure has no field for is ignored.
from_value(requires, fields) ==
    [i \in DOMAIN requires |->
        [resource_name |-> requires[i].resource_name,
         required_sha |-> IF "required_sha" \in fields
                          THEN requires[i].required_sha ELSE None]]

get_resource_requirement(package, available_resources, values, fields) ==
    LET section == package.cargo_resources
        consumer_declaration ==
            IF section.kind = "null"
            THEN [resource_root |-> None, requires |-> None]
            ELSE [resource_root |-> section.resource_root,
                  requires |-> section.requires]
        root == unwrap_or(consumer_declaration.resource_root, DefaultResourceRoot)
        required ==
            IF consumer_declaration.requires = None
            THEN [i \in 1..Len(values) |->
                    ResourceRequirement(
                        available_resources[values[i]].resource_name, None)]
            ELSE LET declarations ==
                        from_value(unwrap_or(consumer_declaration.requires, << >>),
                                   fields)
                 IN  [i \in 1..Len(declarations) |->
                        ResourceRequirement(declarations[i].resource_name,
                                            declarations[i].required_sha)]
    IN  IF section.kind \notin {"null", "object"}
        THEN [result |-> Panic("Misconfigured cargo_resources"),
              resource_root |-> << >>, required_resources |-> << >>]
        ELSE [result |-> Ok, resource_root |-> root, required_resources |-> required]

(***************************************************************************)
(* lib.rs verify_resource_is_in_root.  Each stage of the function takes    *)
(* the values computed so far as its parameters.                           *)
(***************************************************************************)
\* The loop over the components of the parent of the resource path: each
\* walked directory is created when it does not exist (lines 385-391).
RECURSIVE WalkedDirectories(_, _, _)
WalkedNext(made, target, k) ==
    IF made.ok THEN WalkedDirectories(made.fs, target, k + 1) ELSE made
WalkedDirectories(f, target, k) ==
    IF k > Len(target) THEN [ok |-> TRUE, fs |-> f]
    ELSE WalkedNext(create_output_directory(f, SubSeq(target, 1, k)), target, k)

\* Lines 401-410: the canonical parent must start with the canonical root.
VerifyStartsWith(g, can_resource_path, can_root_path) ==
    IF ~can_resource_path.ok
    THEN [result |-> Err("Unable to canonicalize resource path", ""), fs |-> g]
    ELSE IF ~starts_with(can_resource_path.path, can_root_path.path)
    THEN [result |-> Err("not in resource root", ""), fs |-> g]
    ELSE [result |-> Ok, fs |-> g]

\* Lines 392-399: canonicalize the parent once its directories exist.
VerifyWalked(walked, resource_path, can_root_path) ==
    IF ~walked.ok
    THEN [result |-> Err("Unable to create output directory", ""), fs |-> walked.fs]
    ELSE VerifyStartsWith(walked.fs,
            canonicalize_utf8(walked.fs, parent(resource_path)), can_root_path)

\* Lines 381-391.
VerifyParent(f, resource_path, can_root_path) ==
    IF ~can_root_path.ok
    THEN [result |-> Err("Unable to canonicalize root path", ""), fs |-> f]
    ELSE IF ~has_parent(resource_path) THEN [result |-> Ok, fs |-> f]
    ELSE VerifyWalked(WalkedDirectories(f, parent(resource_path), 1),
                      resource_path, can_root_path)

verify_resource_is_in_root(f, resource_path, root_path) ==
    VerifyParent(f, resource_path, canonicalize_utf8(f, root_path))

(***************************************************************************)
(* lib.rs copy_resource, in stages as well                                 *)
(***************************************************************************)
\* A variant of AlreadyExists that takes any existing target as up to date.
AlreadyExistsAnySha(f, output_resources_path, new_sha) ==
    exists(f, output_resources_path)

\* The target already holds the bytes of the source (lines 317-324).
AlreadyExists(f, output_resources_path, new_sha) ==
    /\ exists(f, output_resources_path)
    /\ get_file_sha(f, output_resources_path).ok
    /\ get_file_sha(f, output_resources_path).sha = new_sha

\* A variant of ShaMismatch that accepts every source.
ShaMismatchIgnored(required_sha, new_sha) == FALSE

\* The required sha is set and is not the sha of the source (lines 302-315).
ShaMismatch(required_sha, new_sha) ==
    required_sha # None /\ unwrap_or(required_sha, << >>) # new_sha

\* copy_resource returns an error: nothing is printed.
Stopped(r, g) == [result |-> r, fs |-> g, out |-> << >>]
\* copy_resource returns Ok after its println! (lines 337-346).
Collected(g, already_exists, new_sha, output_resources_path) ==
    [result |-> Ok, fs |-> g,
     out |-> << ResourceCollection(already_exists, new_sha, output_resources_path) >>]

\* Lines 326-335: copy unless the target already exists with this sha.
CopyFinish(copied, new_sha, output_resources_path) ==
    IF ~copied.ok THEN Stopped(Err("Unable to copy resource", ""), copied.fs)
    ELSE Collected(copied.fs, FALSE, new_sha, output_resources_path)

CopyUnlessExists(g, already_exists, new_sha, res_dec, output_resources_path) ==
    IF already_exists THEN Collected(g, TRUE, new_sha, output_resources_path)
    ELSE CopyFinish(fs_copy(g, res_dec.full_crate_path, output_resources_path),
                    new_sha, output_resources_path)

\* Lines 299-324: the sha of the source, the required sha, the sha of the target.
CopyHashed(g, source_sha, res_req, res_dec, output_resources_path) ==
    IF ~source_sha.ok THEN Stopped(Err("Error opening", ""), g)
    ELSE IF ShaMismatch(res_req.required_sha, source_sha.sha)
    THEN Stopped(Err("does not match required sha", res_req.resource_name), g)
    ELSE IF exists(g, output_resources_path)
            /\ ~get_file_sha(g, output_resources_path).ok
    THEN Stopped(Err("Error opening", ""), g)
    ELSE CopyUnlessExists(g,
            AlreadyExists(g, output_resources_path, source_sha.sha),
            source_sha.sha, res_dec, output_resources_path)

\* Lines 294-299.
CopyInDirectory(made, res_req, res_dec, output_resources_path) ==
    IF ~made.ok THEN Stopped(Err("Unable to create output directory", ""), made.fs)
    ELSE CopyHashed(made.fs, get_file_sha(made.fs, res_dec.full_crate_path),
                    res_req, res_dec, output_resources_path)

\* Lines 292-296.
CopyVerified(verified, res_req, res_dec, output_resources_path) ==
    IF verified.result # Ok THEN Stopped(verified.result, verified.fs)
    ELSE IF ~has_parent(output_resources_path)
    THEN Stopped(Panic("unwrap of no parent"), verified.fs)
    ELSE CopyInDirectory(
            create_output_directory(verified.fs, parent(output_resources_path)),
            res_req, res_dec, output_resources_path)

\* Lines 289-292.
OutputResourcesPath(root, res_dec) == join(root, res_dec.output_path)

copy_resource(f, res_req, res_dec, root) ==
    CopyVerified(
        verify_resource_is_in_root(f, OutputResourcesPath(root, res_dec), root),
        res_req, res_dec, OutputResourcesPath(root, res_dec))

(***************************************************************************)
(* The packages, their manifests and the inputs of a run                   *)
(***************************************************************************)
Pkgs == {"A", "B", "C", "D"}
RootPackage == "A"

\* The order of package ids; cargo emits the dependencies of a node sorted.
PkgOrder == << "A", "B", "C", "D" >>
RECURSIVE SortedIds(_, _)
SortedIds(S, k) ==
    IF k > Len(PkgOrder) THEN << >>
    ELSE (IF PkgOrder[k] \in S THEN << PkgOrder[k] >> ELSE << >>)
         \o SortedIds(S, k + 1)

\* All the orders a HashMap may yield the keys S in.
Orders(S) ==
    { s \in [1..Cardinality(S) -> S] :
        \A i, j \in 1..Cardinality(S) : i # j => s[i] # s[j] }

\* declarations.rs ResourceDataDeclaration, as found in the package metadata
\* (malformed: serde cannot parse the entry).
Declaration(crate_path, output_path, resource_name, encoding) ==
    [malformed |-> FALSE, encoding |-> encoding, crate_path |-> crate_path,
     output_path |-> output_path, resource_name |-> resource_name]
MalformedEntry == [Declaration(<< >>, None, None, None) EXCEPT !.malformed = TRUE]

\* [package.metadata.cargo_resources] of a package.
NoSection ==
    [kind |-> "null", provides |-> [kind |-> "null", entries |-> << >>],
     resource_root |-> None, requires |-> None]
Provides(entries) ==
    [kind |-> "object", provides |-> [kind |-> "array", entries |-> entries],
     resource_root |-> None, requires |-> None]
Consumes(root, requires) ==
    [kind |-> "object", provides |-> [kind |-> "null", entries |-> << >>],
     resource_root |-> root, requires |-> requires]

\* The manifest of a package: the consuming crate lies where main.rs looks
\* for it, the other crates in the registry.
PackagePath(package_arg) == unwrap_or(package_arg, Cwd)
ManifestPath(p, package_arg) ==
    IF p = RootPackage THEN join(PackagePath(package_arg), << "Cargo.toml" >>)
    ELSE << "/", "reg", p, "Cargo.toml" >>

Package(p, package_arg, section) ==
    [name |-> p, version |-> "1.0.0",
     manifest_path |-> ManifestPath(p, package_arg),
     cargo_resources |-> section]

\* A data file and the record file.
DataFile(n) == [data |-> n, json |-> << >>, mtime |-> 1]
DataBytes(n) == [data |-> n, json |-> << >>]
\* serde_json::to_string of the resolved specifications: a JSON array with
\* one object per specification, in order.
to_string(resolved) == [data |-> 0, json |-> resolved]

\* The source tree: the manifests and the resource files of the crates.
SourceDirs ==
    { << "/" >>, Cwd, << "/", "m" >>, << "/", "outside" >>, << "/", "reg" >>,
      << "/", "reg", "B" >>, << "/", "reg", "B", "res" >>,
      << "/", "reg", "C" >>, << "/", "reg", "D" >> }
SourceFiles ==
    (Cwd \o << "Cargo.toml" >>) :> DataFile(0)
    @@ << "/", "m", "Cargo.toml" >> :> DataFile(0)
    @@ << "/", "reg", "B", "logo.txt" >> :> DataFile(1)
    @@ << "/", "reg", "B", "res", "logo.txt" >> :> DataFile(1)
    @@ << "/", "reg", "B", "cfg.txt" >> :> DataFile(1)
    @@ << "/", "reg", "C", "logo.txt" >> :> DataFile(2)
    @@ << "/", "reg", "C", "cfg.txt" >> :> DataFile(2)
    @@ << "/", "reg", "D", "donly.txt" >> :> DataFile(3)
EmptyMap == [k \in {} |-> 0]

\* A file system with the source tree only: no output of an earlier build.
CleanFs == [dirs |-> SourceDirs, files |-> SourceFiles, links |-> EmptyMap]

\* A file system that holds the output root `root` (a canonical location)
\* of an earlier build: stale resources, a record file and a directory
\* symlink that leads out of the root.
StaleFs(root) ==
    [dirs |-> SourceDirs \cup Prefixes(root) \cup { root \o << "img" >> },
     files |-> SourceFiles
        @@ (root \o << "img", "logo.txt" >>) :> DataFile(7)
        @@ (root \o << "shared.txt" >>) :> DataFile(2)
        @@ (root \o << "logo.txt" >>) :> DataFile(1)
        @@ (root \o << "resolved_resources.json" >>) :> DataFile(9),
     links |-> (root \o << "link" >>) :> << "/", "outside" >>]

InitWith(package_arg, deps, sections, files) ==
    /\ args_package = package_arg
    /\ metadata = [packages |-> [p \in Pkgs |-> Package(p, package_arg, sections[p])],
                   resolve |-> [p \in Pkgs |-> SortedIds(deps[p], 1)],
                   root |-> RootPackage]
    /\ fs = files
    /\ pc = "main"
    /\ run = 1
    /\ packages_by_id = [p \in Pkgs |-> FALSE]
    /\ processed_packages = {}
    /\ pending_nodes = << >>
    /\ child_packages = {}
    /\ declared_resources = EmptyMap
    /\ resource_root = << >>
    /\ required_resources = << >>
    /\ resolved_resources = << >>
    /\ stdout = << >>
    /\ result = Running
    /\ history = << [fs |-> files, stdout |-> << >>, result |-> Running,
                     resolved |-> << >>] >>

(***************************************************************************)
(* The steps of a run: main.rs main and lib.rs collate_resources           *)
(***************************************************************************)
runLocals == << packages_by_id, processed_packages, pending_nodes,
                child_packages, declared_resources, resource_root,
                required_resources, resolved_resources >>
inputs == << args_package, metadata >>

\* The run ends: main returns r.
Exit(r) == pc' = "exit" /\ result' = r

\* A variant of Unprocessed that pushes one dependency at most.
UnprocessedFirst(dependencies, processed) ==
    IF SelectSeq(dependencies, LAMBDA pkg : pkg \notin processed) = << >>
    THEN << >>
    ELSE << Head(SelectSeq(dependencies, LAMBDA pkg : pkg \notin processed)) >>

\* A variant of Unprocessed that checks every dependency but the first
\* against the processed packages.
UnprocessedAfterFirst(dependencies, processed) ==
    IF dependencies = << >> THEN << >>
    ELSE << Head(dependencies) >>
            \o SelectSeq(Tail(dependencies), LAMBDA pkg : pkg \notin processed)

\* The dependencies of a popped node that are pushed (lib.rs 145-149).
Unprocessed(dependencies, processed) ==
    SelectSeq(dependencies, LAMBDA pkg : pkg \notin processed)

\* main.rs 21-35 and lib.rs 54-70, 116-135: find the manifest, load the
\* metadata and start get_package_details at the node of the root package.
Main ==
    /\ pc = "main"
    /\ LET package_path == PackagePath(args_package)
           source_manifest == join(package_path, << "Cargo.toml" >>)
       IN  IF ~is_dir(fs, package_path)
           THEN /\ Exit(Err("should be a directory", ""))
                /\ UNCHANGED << packages_by_id, processed_packages, pending_nodes >>
           ELSE IF ~exists(fs, source_manifest)
           THEN /\ Exit(Err("Source manifest does not exist", ""))
                /\ UNCHANGED << packages_by_id, processed_packages, pending_nodes >>
           ELSE /\ packages_by_id' = [p \in Pkgs |-> FALSE]
                /\ processed_packages' = {}
                /\ pending_nodes' = << metadata.root >>
                /\ pc' = "deps"
                /\ UNCHANGED result
    /\ UNCHANGED << inputs, fs, run, child_packages, declared_resources,
                    resource_root, required_resources, resolved_resources,
                    stdout, history >>

\* lib.rs 136-150: one iteration of the loop of get_package_details.
PopNode ==
    /\ pc = "deps"
    /\ pending_nodes # << >>
    /\ LET node == pending_nodes[Len(pending_nodes)]
           rest == SubSeq(pending_nodes, 1, Len(pending_nodes) - 1)
           done == processed_packages \cup {node}
       IN  /\ packages_by_id' = [packages_by_id EXCEPT ![node] = TRUE]
           /\ processed_packages' = done
           /\ pending_nodes' = rest \o Unprocessed(metadata.resolve[node], done)
    /\ UNCHANGED << inputs, fs, pc, run, child_packages, declared_resources,
                    resource_root, required_resources, resolved_resources,
                    stdout, result, history >>

\* The packages get_package_details marked (lib.rs 73-76).
InScope(details) == { p \in Pkgs : details[p] }

\* lib.rs 151, 72-79: the loop of get_package_details is over; keep the
\* packages in the dependency tree and start with an empty registry.
FilterPackages ==
    /\ pc = "deps"
    /\ pending_nodes = << >>
    /\ child_packages' = InScope(packages_by_id)
    /\ declared_resources' = EmptyMap
    /\ pc' = "collect"
    /\ UNCHANGED << inputs, fs, run, packages_by_id, processed_packages,
                    pending_nodes, resource_root, required_resources,
                    resolved_resources, stdout, result, history >>

\* lib.rs 80-82: get_package_resource_data of the next package, in the
\* order the HashMap of packages yields them.
\* The registry and the warnings printed after one package (lib.rs 81).
RegistryUpdate(got) ==
    /\ declared_resources' = got.resources
    /\ stdout' = got.out
    /\ IF got.result = Ok THEN UNCHANGED << pc, result >>
       ELSE Exit(got.result)

CollectPackage ==
    /\ pc = "collect"
    /\ \E p \in child_packages :
        /\ child_packages' = child_packages \ {p}
        /\ RegistryUpdate(get_package_resource_data(metadata.packages[p],
                                                declared_resources, stdout))
    /\ UNCHANGED << inputs, fs, run, packages_by_id, processed_packages,
                    pending_nodes, resource_root, required_resources,
                    resolved_resources, history >>

\* A variant of OutputRoot without the early finish of lib.rs 91-94.
OutputRootAlwaysSynchronizes(spec, made) ==
    /\ resource_root' = spec.resource_root
    /\ fs' = made.fs
    /\ IF ~made.ok
       THEN /\ Exit(Err("Unable to create output directory", ""))
            /\ UNCHANGED << required_resources, resolved_resources, stdout >>
       ELSE /\ required_resources' = spec.required_resources
            /\ resolved_resources' = << >>
            /\ pc' = "sync"
            /\ UNCHANGED << stdout, result >>

\* lib.rs 88-96: create the output root; finish early when nothing is
\* required, else start the loop over the requirements.
OutputRoot(spec, made) ==
    /\ resource_root' = spec.resource_root
    /\ fs' = made.fs
    /\ IF ~made.ok
       THEN /\ Exit(Err("Unable to create output directory", ""))
            /\ UNCHANGED << required_resources, resolved_resources, stdout >>
       ELSE IF Len(spec.required_resources) <= 0
       THEN /\ stdout' = Append(stdout, NoResourcesFound)
            /\ Exit(Ok)
            /\ UNCHANGED << required_resources, resolved_resources >>
       ELSE /\ required_resources' = spec.required_resources
            /\ resolved_resources' = << >>
            /\ pc' = "sync"
            /\ UNCHANGED << stdout, result >>

\* lib.rs 85: the consumer specification, or its error.
Required(spec) ==
    IF spec.result # Ok
    THEN /\ Exit(spec.result)
         /\ UNCHANGED << fs, resource_root, required_resources,
                         resolved_resources, stdout >>
    ELSE OutputRoot(spec, create_output_directory(fs, spec.resource_root))

\* lib.rs 84-96: the requirements of the consuming crate, the output root,
\* and the early finish when nothing is required.
ResolveRequirement ==
    /\ pc = "collect"
    /\ child_packages = {}
    /\ \E values \in Orders(DOMAIN declared_resources), fields \in RequirementFields :
        Required(get_resource_requirement(metadata.packages[metadata.root],
                                          declared_resources, values, fields))
    /\ UNCHANGED << inputs, run, packages_by_id, processed_packages,
                    pending_nodes, child_packages, declared_resources, history >>

\* A variant of Synchronized that records the specification in front.
SynchronizedInFront(copy, res_dec) ==
    /\ fs' = copy.fs
    /\ stdout' = stdout \o copy.out
    /\ IF copy.result # Ok
       THEN /\ Exit(copy.result)
            /\ UNCHANGED << required_resources, resolved_resources >>
       ELSE /\ required_resources' = Tail(required_resources)
            /\ resolved_resources' = << res_dec >> \o resolved_resources
            /\ UNCHANGED << pc, result >>

\* lib.rs 101-102: the outcome of copy_resource for one requirement.
Synchronized(copy, res_dec) ==
    /\ fs' = copy.fs
    /\ stdout' = stdout \o copy.out
    /\ IF copy.result # Ok
       THEN /\ Exit(copy.result)
            /\ UNCHANGED << required_resources, resolved_resources >>
       ELSE /\ required_resources' = Tail(required_resources)
            /\ resolved_resources' = Append(resolved_resources, res_dec)
            /\ UNCHANGED << pc, result >>

\* A variant of Lookup that skips a requirement the registry lacks.
LookupSkipsUnmet(res_req) ==
    IF res_req.resource_name \notin DOMAIN declared_resources
    THEN /\ required_resources' = Tail(required_resources)
         /\ UNCHANGED << fs, resolved_resources, stdout, pc, result >>
    ELSE Synchronized(
            copy_resource(fs, res_req, declared_resources[res_req.resource_name],
                          resource_root),
            declared_resources[res_req.resource_name])

\* lib.rs 98-102: look the requirement up in the registry and copy it.
Lookup(res_req) ==
    IF res_req.resource_name \notin DOMAIN declared_resources
    THEN /\ Exit(Err("No resource found matching requirement",
                     res_req.resource_name))
         /\ UNCHANGED << fs, required_resources, resolved_resources, stdout >>
    ELSE Synchronized(
            copy_resource(fs, res_req, declared_resources[res_req.resource_name],
                          resource_root),
            declared_resources[res_req.resource_name])

\* lib.rs 97-103: one iteration of the loop over the requirements.
SyncResource ==
    /\ pc = "sync"
    /\ required_resources # << >>
    /\ Lookup(Head(required_resources))
    /\ UNCHANGED << inputs, run, packages_by_id, processed_packages,
                    pending_nodes, child_packages, declared_resources,
                    resource_root, history >>

\* The path of the record file (lib.rs 109).
RecordFilePath(root) == join(root, << "resolved_resources.json" >>)

\* lib.rs 110-112: the outcome of writing the record file.
Recorded(written) ==
    /\ fs' = written.fs
    /\ Exit(IF written.ok THEN Ok ELSE Err("Failed writing record file", ""))

\* lib.rs 105-112: write the record of the resources.
WriteRecord ==
    /\ pc = "sync"
    /\ required_resources = << >>
    /\ Recorded(fs_write(fs, RecordFilePath(resource_root),
                         to_string(resolved_resources)))
    /\ UNCHANGED << inputs, run, runLocals, stdout, history >>

\* The tool is invoked again, on the same source tree and configuration.
NextRun ==
    /\ pc = "exit"
    /\ run < MaxRuns
    /\ history' = Append(history, [fs |-> fs, stdout |-> stdout,
                                   result |-> result,
                                   resolved |-> resolved_resources])
    /\ run' = run + 1
    /\ pc' = "main"
    /\ packages_by_id' = [p \in Pkgs |-> FALSE]
    /\ processed_packages' = {}
    /\ pending_nodes' = << >>
    /\ child_packages' = {}
    /\ declared_resources' = EmptyMap
    /\ resource_root' = << >>
    /\ required_resources' = << >>
    /\ resolved_resources' = << >>
    /\ stdout' = << >>
    /\ result' = Running
    /\ UNCHANGED << inputs, fs >>

Next ==
    \/ Main
    \/ PopNode
    \/ FilterPackages
    \/ CollectPackage
    \/ ResolveRequirement
    \/ SyncResource
    \/ WriteRecord
    \/ NextRun

(***************************************************************************)
(* The inputs of the runs that are checked                                 *)
(***************************************************************************)
\* What crate B may declare.
ProvidesB ==
    { NoSection,
      Provides(<< Declaration(<< "logo.txt" >>, None, None, None) >>),
      Provides(<< Declaration(<< "res", "logo.txt" >>,
                    Some(<< "img", "logo.txt" >>), Some("logo"), Some("Bin")) >>),
      Provides(<< Declaration(<< "cfg.txt" >>,
                    Some(<< "shared.txt" >>), Some("cfg"), None) >>),
      Provides(<< Declaration(<< "cfg.txt" >>,
                    Some(<< "..", "outside", "evil.txt" >>), Some("cfg"), None) >>),
      Provides(<< Declaration(<< "cfg.txt" >>,
                    Some(<< "link", "x.txt" >>), Some("cfg"), None) >>),
      Provides(<< Declaration(<< "/", "etc", "abs.txt" >>, None, Some("cfg"), None) >>),
      Provides(<< Declaration(<< "cfg.txt" >>,
                    Some(<< "/", "abs", "x.txt" >>), Some("cfg"), None) >>),
      Provides(<< Declaration(<< "logo.txt" >>, None, Some("logo"), None),
                  Declaration(<< "cfg.txt" >>,
                    Some(<< "img", "logo.txt" >>), Some("logo"), None) >>),
      Provides(<< Declaration(<< "gone.txt" >>, None, Some("cfg"), None) >>),
      Provides(<< MalformedEntry >>) }

\* What crate C may declare.
ProvidesC ==
    { NoSection,
      Provides(<< Declaration(<< "logo.txt" >>,
                    Some(<< "img", "logo.txt" >>), Some("logo"), None) >>),
      Provides(<< Declaration(<< "logo.txt" >>,
                    Some(<< "shared.txt" >>), Some("logo"), None) >>),
      Provides(<< Declaration(<< "cfg.txt" >>, None, None, None) >>) }

\* Crate D declares a resource of its own.
ProvidesD == Provides(<< Declaration(<< "donly.txt" >>, None, Some("donly"), None) >>)

\* declarations.rs ResourceRequirementDeclaration, as lib.rs 273-276 reads it.
RequirementDeclaration(name, sha) == [resource_name |-> name, required_sha |-> sha]

\* The entries a `requires` list is made of.
Requirements ==
    { RequirementDeclaration("logo", None),
      RequirementDeclaration("cfg", None),
      RequirementDeclaration("nope", None),
      RequirementDeclaration("logo", Some(hex_encode(DataBytes(1)))),
      RequirementDeclaration("cfg", Some(hex_encode(DataBytes(2)))) }

\* The `requires` of the consuming crate: absent, or a list of entries.
RequiresOptions ==
    { None } \cup { Some(l) : l \in UNION { [1..k -> Requirements] : k \in 0..MaxRequires } }

\* The section of the consuming crate.
ConsumerSection(root, requires) ==
    IF root = None /\ requires = None THEN NoSection ELSE Consumes(root, requires)

\* A depends on B, B on C and C on A again; nothing depends on D.
ChainDeps == [p \in Pkgs |-> CASE p = "A" -> {"B"}
                               [] p = "B" -> {"C"}
                               [] p = "C" -> {"A"}
                               [] OTHER -> {}]

\* The output root of a run started in the directory of the manifest.
DefaultRootLocation == Cwd \o DefaultResourceRoot

Sections(a, b, c, d) == [p \in Pkgs |-> CASE p = "A" -> a [] p = "B" -> b
                                           [] p = "C" -> c [] OTHER -> d]

Init ==
    \E b \in ProvidesB, c \in ProvidesC, requires \in RequiresOptions,
       stale \in BOOLEAN :
        InitWith(None, ChainDeps,
                 Sections(ConsumerSection(None, requires), b, c, ProvidesD),
                 IF stale THEN StaleFs(DefaultRootLocation) ELSE CleanFs)

Spec == Init /\ [][Next]_vars

\* The consuming crate declares a resource of its own.
ProvidesA == Provides(<< Declaration(<< "own.txt" >>, None, None, None) >>)

\* The direct dependencies a package may have (itself included).
DependencySets == { S \in SUBSET Pkgs : Cardinality(S) <= MaxDeps }

\* Every dependency graph over the packages, each crate declaring one
\* resource; the run is followed up to the end of the registry construction.
InitDeps ==
    \E deps \in [Pkgs -> DependencySets] :
        InitWith(None, deps,
                 Sections(ProvidesA,
                          Provides(<< Declaration(<< "logo.txt" >>, None, None, None) >>),
                          Provides(<< Declaration(<< "cfg.txt" >>, None, None, None) >>),
                          ProvidesD),
                 CleanFs)

NextDeps ==
    \/ Main
    \/ PopNode
    \/ FilterPackages
    \/ CollectPackage

SpecDeps == InitDeps /\ [][NextDeps]_vars

\* get_package_details alone, on every dependency graph: the code runs
\* sequentially, so a step that can be taken is taken.
NextTraversal ==
    \/ Main
    \/ PopNode
    \/ FilterPackages

SpecTraversal ==
    /\ InitDeps
    /\ [][NextTraversal]_vars
    /\ WF_vars(Main) /\ WF_vars(PopNode) /\ WF_vars(FilterPackages)

\* The package directory given to main.rs: none, or a directory that is not
\* the working directory.
PackageArguments == { None, Some(<< "/", "m" >>) }

\* The `resource_root` of the consuming crate: absent, or a relative path.
DeclaredRoots == { None, Some(<< "out" >>) }

\* Runs started in the working directory for a consuming crate that lies in
\* it or elsewhere, with and without a declared resource root.
InitRoot ==
    \E package_arg \in PackageArguments, root \in DeclaredRoots,
       b \in { NoSection,
               Provides(<< Declaration(<< "logo.txt" >>, None, None, None) >>) },
       c \in { NoSection,
               Provides(<< Declaration(<< "cfg.txt" >>, None, None, None) >>) },
       requires \in { None, Some(<< RequirementDeclaration("logo.txt", None) >>) } :
        InitWith(package_arg, ChainDeps,
                 Sections(ConsumerSection(root, requires), b, c, ProvidesD),
                 CleanFs)

SpecRoot == InitRoot /\ [][Next]_vars

(***************************************************************************)
(* Properties                                                              *)
(***************************************************************************)
\* The file system at the start of the current run.
FsAtStart == history[run].fs

\* The requirement the loop of collate_resources is about to process.
SyncPending == pc = "sync" /\ required_resources # << >>
HeadRequirement == Head(required_resources)
HeadDeclared == HeadRequirement.resource_name \in DOMAIN declared_resources
HeadSpecification == declared_resources[HeadRequirement.resource_name]
HeadTargetPath == join(resource_root, HeadSpecification.output_path)
\* The canonical location of the target of the requirement.
HeadTarget == Resolve(fs, HeadTargetPath)
HeadSource == Resolve(fs, HeadSpecification.full_crate_path)

\* The location is under (or is) the directory, component by component.
IsUnder(loc, dir) ==
    Len(dir) <= Len(loc) /\ \A i \in 1..Len(dir) : loc[i] = dir[i]

\* The canonical directory a target would be written in lies in the root.
HeadContained ==
    IsUnder(Resolve(fs, parent(HeadTargetPath)), Resolve(fs, resource_root))

\* The source of the requirement can be read, and its bytes.
HeadSourceReadable == HeadSource \in DOMAIN fs.files
HeadSourceBytes == Bytes(fs.files[HeadSource])
HeadPinMismatch ==
    /\ HeadRequirement.required_sha # None
    /\ HeadRequirement.required_sha # Some(hex_encode(HeadSourceBytes))

\* The step wrote the file at loc: it is new or its stamp advanced.
WrittenInStep(loc) ==
    /\ loc \in DOMAIN fs'.files
    /\ loc \in DOMAIN fs.files => fs'.files[loc].mtime # fs.files[loc].mtime
\* The step left the file at loc alone.
KeptInStep(loc) ==
    IF loc \in DOMAIN fs.files
    THEN loc \in DOMAIN fs'.files /\ fs'.files[loc] = fs.files[loc]
    ELSE loc \notin DOMAIN fs'.files

\* C1: when copy_resource processes a requirement that passes the
\* containment check and the pinned-hash check, the source is copied to the
\* target exactly when the target does not exist or its bytes (hence its
\* hash) differ from those of the source; a target that exists with the
\* same hash is not written.
C1_CopyIffHashDiffers ==
    [][ (SyncResource /\ SyncPending /\ HeadDeclared /\ HeadContained
            /\ HeadSourceReadable /\ ~HeadPinMismatch)
        => /\ WrittenInStep(HeadTarget)
                <=> ( HeadTarget \notin DOMAIN fs.files
                      \/ Bytes(fs.files[HeadTarget]) # HeadSourceBytes )
           /\ WrittenInStep(HeadTarget)
                => Bytes(fs'.files[HeadTarget]) = HeadSourceBytes
           /\ ~WrittenInStep(HeadTarget) => KeptInStep(HeadTarget) ]_vars

\* The collection reports of this run.
Collections == SelectSeq(stdout, LAMBDA e : e.ev = "collected")

\* C1 witness: one run found a target with the hash of its source and left
\* it, and copied over a target that existed with another hash.
C1_Witness ==
    /\ \E i \in DOMAIN Collections : Collections[i].existed
    /\ \E i \in DOMAIN Collections :
        /\ ~Collections[i].existed
        /\ Resolve(fs, Collections[i].path) \in DOMAIN FsAtStart.files
        /\ fs.files[Resolve(fs, Collections[i].path)].mtime = 2

\* The previous run and the current run both returned Ok.
SecondRunDone ==
    run >= 2 /\ pc = "exit" /\ result = Ok /\ history[run].result = Ok

\* C2: idempotence of collate_resources: when a run succeeds and is followed
\* by a second run on the same sources and configuration, the second run
\* copies nothing (every resource is reported as existed) and every
\* destination file has the bytes it had after the first run, also when
\* distinct resource names share one output path.
C2_Idempotent ==
    SecondRunDone =>
        \A i \in DOMAIN Collections :
            /\ Collections[i].existed
            /\ fs.files[Resolve(fs, Collections[i].path)]
                = FsAtStart.files[Resolve(fs, Collections[i].path)]

\* The files outside the output root are those of the start of the run,
\* untouched.
NoFileOutsideRoot(f) ==
    \A loc \in DOMAIN f.files :
        \/ IsUnder(loc, Resolve(f, resource_root))
        \/ loc \in DOMAIN FsAtStart.files /\ f.files[loc] = FsAtStart.files[loc]

\* C3: containment: when the parent directory of the target of a requirement
\* resolves to a location that is neither the output root nor under it,
\* copy_resource fails with the path-containment error, and no file outside
\* the output root has been written by that step or by an earlier step of
\* the run.
C3_Containment ==
    [][ (SyncResource /\ SyncPending /\ HeadDeclared /\ ~HeadContained)
        => /\ pc' = "exit"
           /\ result' = Err("not in resource root", "")
           /\ NoFileOutsideRoot(fs') ]_vars

\* C3 witness: the run failed the containment check after an earlier
\* requirement had been copied into the root.
C3_Witness ==
    /\ pc = "exit"
    /\ result = Err("not in resource root", "")
    /\ Len(Collections) >= 1
    /\ \E i \in DOMAIN Collections : ~Collections[i].existed
    /\ NoFileOutsideRoot(fs)

\* C4: hash pinning: when copy_resource has computed the hash of the source
\* of a requirement and the requirement pins another hash, the run fails
\* with the hash-mismatch error naming the requirement and the target is
\* not written: it keeps its previous content if it exists and stays
\* absent if it does not.
C4_PinnedHashMismatch ==
    [][ (SyncResource /\ SyncPending /\ HeadDeclared /\ HeadContained
            /\ HeadSourceReadable /\ HeadPinMismatch)
        => /\ pc' = "exit"
           /\ result' = Err("does not match required sha",
                            HeadRequirement.resource_name)
           /\ KeptInStep(HeadTarget)
           /\ \A loc \in DOMAIN fs'.files :
                loc \in DOMAIN fs.files /\ fs'.files[loc] = fs.files[loc] ]_vars

\* C4 witness: the run failed on a pinned hash while the target existed,
\* with bytes other than those of the source.
C4_Witness ==
    /\ pc = "exit"
    /\ result.error = "does not match required sha"
    /\ HeadDeclared
    /\ HeadTarget \in DOMAIN fs.files
    /\ HeadSourceReadable
    /\ Bytes(fs.files[HeadTarget]) # HeadSourceBytes

\* The packages reachable from the set S through direct-dependency edges.
RECURSIVE Closure(_)
Closure(S) ==
    LET T == S \cup { q \in Pkgs : \E p \in S :
                            \E i \in DOMAIN metadata.resolve[p] :
                                metadata.resolve[p][i] = q }
    IN  IF T = S THEN S ELSE Closure(T)
ReachablePackages == Closure({metadata.root})

\* C5: dependency closure: get_package_details marks exactly the root
\* package and the packages reachable from it through direct-dependency
\* edges; a package that is not reachable is never marked, and no resource
\* of the Declaration Registry is declared by such a package.
C5_DependencyClosure ==
    /\ InScope(packages_by_id) \subseteq ReachablePackages
    /\ pc \in {"collect", "sync", "exit"}
        => InScope(packages_by_id) = ReachablePackages
    /\ \A n \in DOMAIN declared_resources :
        declared_resources[n].declaring_crate_name \in ReachablePackages

\* C5 witness: A depends on B and B on C, D is not reachable; the registry
\* is complete and holds the resources of A, B and C but not that of D.
C5_Witness ==
    /\ pc = "collect" /\ child_packages = {}
    /\ metadata.resolve["A"] = << "B" >> /\ metadata.resolve["B"] = << "C" >>
    /\ metadata.resolve["C"] = << >>
    /\ InScope(packages_by_id) = {"A", "B", "C"}
    /\ DOMAIN declared_resources = {"own.txt", "logo.txt", "cfg.txt"}
    /\ metadata.packages["D"].cargo_resources = ProvidesD

\* The declarations of the in-scope packages, as <<package, index>>.
ProvidedEntries(p) ==
    IF metadata.packages[p].cargo_resources.kind = "object"
       /\ metadata.packages[p].cargo_resources.provides.kind = "array"
    THEN metadata.packages[p].cargo_resources.provides.entries
    ELSE << >>
InScopeDeclarations ==
    { pi \in ReachablePackages \X (1..2) : pi[2] \in DOMAIN ProvidedEntries(pi[1]) }
EntryOf(pi) == ProvidedEntries(pi[1])[pi[2]]

\* A declaration the registry accepts: it parses and its paths are relative.
ValidEntry(e) ==
    /\ ~e.malformed
    /\ file_name(e.crate_path) # None
    /\ ~is_absolute(e.crate_path)
    /\ \A o \in e.output_path : ~is_absolute(o)
NameOfEntry(e) ==
    IF e.resource_name # None THEN CHOOSE n \in e.resource_name : TRUE
    ELSE e.crate_path[Len(e.crate_path)]
SourceOfEntry(pi) ==
    parent(metadata.packages[pi[1]].manifest_path) \o EntryOf(pi).crate_path
\* The in-scope declarations that resolve to the name n.
Declaring(n) ==
    { pi \in InScopeDeclarations : ValidEntry(EntryOf(pi)) /\ NameOfEntry(EntryOf(pi)) = n }
DeclaredNames ==
    { NameOfEntry(EntryOf(pi)) : pi \in { q \in InScopeDeclarations : ValidEntry(EntryOf(q)) } }

\* The duplicate notifications printed for the name n.
Duplicates(n) == SelectSeq(stdout, LAMBDA e : e.ev = "duplicate" /\ e.name = n)

\* The registry construction of this run is over and did not fail.
RegistryComplete ==
    \/ pc = "collect" /\ child_packages = {}
    \/ pc = "sync"
    \/ pc = "exit" /\ resource_root # << >>
\* The registry has just been built: every in-scope package was processed
\* and collate_resources is about to resolve the requirements (lib.rs 84).
RegistryBuilt == pc = "collect" /\ child_packages = {}
\* The registry construction of this run failed.
RegistryFailed == pc = "exit" /\ resource_root = << >> /\ result.kind # "Ok"

\* C6: duplicate resolution: in-scope declarations with one resource name do
\* not fail the run; once the registry is built it holds one entry for the
\* name, one duplicate notification has been printed per overwrite (exactly
\* one for two declarations), and the entry is the declaration processed
\* later, the one the last notification reports as the replacement.
C6_DuplicateResolution ==
    /\ RegistryFailed => \E pi \in InScopeDeclarations : ~ValidEntry(EntryOf(pi))
    /\ RegistryBuilt =>
        \A n \in DeclaredNames :
            LET declaring == Declaring(n)
            IN
            /\ n \in DOMAIN declared_resources
            /\ declared_resources[n].resource_name = n
            /\ Len(Duplicates(n)) = Cardinality(declaring) - 1
            /\ Cardinality(declaring) = 2 =>
                /\ Duplicates(n)[1].path = declared_resources[n].full_crate_path
                /\ \E first, later \in declaring :
                    /\ first # later
                    /\ Duplicates(n)[1].replaced = SourceOfEntry(first)
                    /\ Duplicates(n)[1].path = SourceOfEntry(later)
                    /\ declared_resources[n].declaring_crate_name = later[1]
                    /\ declared_resources[n].output_path
                        = unwrap_or(EntryOf(later).output_path, EntryOf(later).crate_path)

\* C6 witness: B and C both declare the resource `logo`; C was processed
\* after B, its declaration is the entry and one notification was printed.
C6_Witness ==
    /\ RegistryBuilt
    /\ Cardinality(Declaring("logo")) = 2
    /\ { pi[1] : pi \in Declaring("logo") } = {"B", "C"}
    /\ declared_resources["logo"].declaring_crate_name = "C"
    /\ Len(Duplicates("logo")) = 1
    /\ Duplicates("logo")[1].replaced = << "/", "reg", "B", "res", "logo.txt" >>

\* The `requires` list of the consuming crate, None when it declares none.
ConsumerRequires == metadata.packages[metadata.root].cargo_resources.requires

\* The location of the record file of this run.
RecordFile(f) == Resolve(f, RecordFilePath(resource_root))

\* C7: empty requirement set: when no in-scope package declares a resource
\* (the registry is empty) and the consuming crate lists no requirements, the
\* run returns success, prints exactly one no-resources-found notification
\* and nothing else, writes no file, and does not create the record file in
\* the output root.
C7_EmptyRequirementSet ==
    (pc = "exit" /\ InScopeDeclarations = {} /\ ConsumerRequires = None)
        => /\ result = Ok
           /\ stdout = << NoResourcesFound >>
           /\ fs.files = FsAtStart.files
           /\ RecordFile(fs) \in DOMAIN fs.files
                => RecordFile(fs) \in DOMAIN FsAtStart.files

\* C7 witness: a run with nothing declared and nothing required ended; it
\* created the output root, and no record file is in it.
C7_Witness ==
    /\ pc = "exit"
    /\ InScopeDeclarations = {}
    /\ ConsumerRequires = None
    /\ DOMAIN declared_resources = {}
    /\ stdout = << NoResourcesFound >>
    /\ Resolve(fs, resource_root) \in fs.dirs \ FsAtStart.dirs
    /\ RecordFile(fs) \notin DOMAIN fs.files

\* The file of the i-th synchronized resource, and the file it came from.
ResolvedTarget(f, i) == Resolve(f, join(resource_root, resolved_resources[i].output_path))
ResolvedSource(f, i) == Resolve(f, resolved_resources[i].full_crate_path)

\* The files copied for the requirements processed so far are on disk: each
\* target exists, with the bytes of the source last copied to it.
CopiedFilesRemain(f) ==
    \A i \in DOMAIN resolved_resources :
        /\ ResolvedTarget(f, i) \in DOMAIN f.files
        /\ (\A j \in DOMAIN resolved_resources :
                j > i => ResolvedTarget(f, j) # ResolvedTarget(f, i))
            => Bytes(f.files[ResolvedTarget(f, i)])
                = Bytes(f.files[ResolvedSource(f, i)])

\* The record file is as it was at the start of the run.
RecordUntouched(f) ==
    IF RecordFile(f) \in DOMAIN FsAtStart.files
    THEN RecordFile(f) \in DOMAIN f.files
         /\ f.files[RecordFile(f)] = FsAtStart.files[RecordFile(f)]
    ELSE RecordFile(f) \notin DOMAIN f.files

\* C8: unmet requirement: when the requirement the loop reaches names a
\* resource that the registry lacks, the run fails with the error naming
\* that requirement; that requirement and those after it are not processed,
\* the record file is neither written nor modified by the run, and the files
\* copied for the requirements before it remain on disk.
C8_UnmetRequirement ==
    [][ (SyncResource /\ SyncPending /\ ~HeadDeclared)
        => /\ pc' = "exit"
           /\ result' = Err("No resource found matching requirement",
                            HeadRequirement.resource_name)
           /\ required_resources' = required_resources
           /\ resolved_resources' = resolved_resources
           /\ Len(resolved_resources) = Len(Collections)
           /\ stdout' = stdout
           /\ fs' = fs
           /\ RecordUntouched(fs')
           /\ CopiedFilesRemain(fs') ]_vars

\* C8 witness: the second requirement was unmet; the file of the first had
\* been copied in this run and is on disk, and no record file was written.
C8_Witness ==
    /\ pc = "exit"
    /\ result = Err("No resource found matching requirement", "nope")
    /\ Len(resolved_resources) = 1
    /\ Len(required_resources) = 1
    /\ ~Collections[1].existed
    /\ ResolvedTarget(fs, 1) \in DOMAIN fs.files \ DOMAIN FsAtStart.files
    /\ RecordFile(fs) \notin DOMAIN fs.files

\* The names of the requirements of this run, in processing order, when the
\* consuming crate lists them.
ListedNames ==
    [i \in DOMAIN unwrap_or(ConsumerRequires, << >>) |->
        unwrap_or(ConsumerRequires, << >>)[i].resource_name]

\* C9: record writer: after a successful run with at least one requirement
\* the record file in the output root holds the serialized list of the
\* specifications that were synchronized: one entry per processed
\* requirement, in processing order (the order of the listed requirements,
\* or each registry entry once when none are listed; the same order as the
\* collection reports); whatever the file held before is replaced.
C9_RecordWriter ==
    (pc = "exit" /\ result = Ok /\ Len(Collections) >= 1)
        => /\ RecordFile(fs) \in DOMAIN fs.files
           /\ \E rec \in [1..Len(Collections) ->
                            { declared_resources[n] : n \in DOMAIN declared_resources }] :
                /\ Bytes(fs.files[RecordFile(fs)]) = to_string(rec)
                /\ \A i \in DOMAIN rec :
                    Collections[i].path = join(resource_root, rec[i].output_path)
                /\ IF ConsumerRequires # None
                   THEN [i \in DOMAIN rec |-> rec[i].resource_name] = ListedNames
                   ELSE /\ Len(rec) = Cardinality(DOMAIN declared_resources)
                        /\ { rec[i].resource_name : i \in DOMAIN rec }
                            = DOMAIN declared_resources
           /\ RecordFile(fs) \in DOMAIN FsAtStart.files
                => fs.files[RecordFile(fs)].mtime
                    > FsAtStart.files[RecordFile(fs)].mtime

\* C9 witness: a run over two listed requirements with different names
\* succeeded and replaced a record file left by something else.
C9_Witness ==
    /\ pc = "exit" /\ result = Ok /\ run = 1
    /\ Len(resolved_resources) = 2
    /\ resolved_resources[1].resource_name # resolved_resources[2].resource_name
    /\ ConsumerRequires # None
    /\ RecordFile(fs) \in DOMAIN FsAtStart.files
    /\ Bytes(FsAtStart.files[RecordFile(fs)]) = DataBytes(9)
    /\ Bytes(fs.files[RecordFile(fs)]) = to_string(resolved_resources)

\* The directory of the manifest of the consuming crate, joined with the
\* declared resource root or with the default.
ManifestRelativeRoot ==
    join(parent(metadata.packages[metadata.root].manifest_path),
         unwrap_or(metadata.packages[metadata.root].cargo_resources.resource_root,
                   DefaultResourceRoot))

\* C10: output root resolution: the output root a run uses, to create the
\* directory, to copy and to write the record file, is the manifest
\* directory of the consuming crate joined with the declared resource_root,
\* or with target/resources when none is declared, whatever the working
\* directory the run is started from.
C10_OutputRootResolution ==
    resource_root # << >>
        => /\ Resolve(fs, resource_root) = Resolve(fs, ManifestRelativeRoot)
           /\ pc \in {"sync", "exit"} /\ result.kind \in {"Running", "Ok"}
                => is_dir(fs, ManifestRelativeRoot)
           /\ \A loc \in DOMAIN fs.files \ DOMAIN FsAtStart.files :
                IsUnder(loc, Resolve(fs, ManifestRelativeRoot))

\* The loop over the requirements is about to start: required_resources is
\* the list get_resource_requirement returned.
RequirementsResolved == pc = "sync" /\ resolved_resources = << >>

\* C11: requirement resolution: without a `requires` list the requirement
\* list has exactly one requirement per resource name of the registry, each
\* without a pinned hash, and no requirement of the run fails the registry
\* lookup; with a `requires` list it has one requirement per declared entry,
\* in declared order, with the resource name and the pinned hash of the
\* entry unchanged.
C11_RequirementResolution ==
    /\ (RequirementsResolved /\ ConsumerRequires = None)
        => /\ Len(required_resources) = Cardinality(DOMAIN declared_resources)
           /\ { required_resources[i].resource_name : i \in DOMAIN required_resources }
                = DOMAIN declared_resources
           /\ \A i \in DOMAIN required_resources :
                required_resources[i].required_sha = None
    /\ (pc = "exit" /\ ConsumerRequires = None)
        => result.error # "No resource found matching requirement"
    /\ (RequirementsResolved /\ ConsumerRequires # None)
        => required_resources
            = [i \in DOMAIN unwrap_or(ConsumerRequires, << >>) |->
                ResourceRequirement(
                    unwrap_or(ConsumerRequires, << >>)[i].resource_name,
                    unwrap_or(ConsumerRequires, << >>)[i].required_sha)]

\* C12: cycle-safe traversal: on every dependency graph over the packages,
\* with cycles, self-dependencies and shared dependencies, the loop of
\* get_package_details, once entered, eventually empties its stack of
\* pending nodes and returns.
C12_TraversalTerminates ==
    (pc = "deps") ~> (pc = "collect" /\ pending_nodes = << >>)

\* C12 witness: get_package_details returned on a graph in which A depends
\* on itself, B and C depend on each other and both depend on D.
C12_Witness ==
    /\ pc = "collect" /\ pending_nodes = << >>
    /\ metadata.resolve["A"] = << "A", "B" >>
    /\ metadata.resolve["B"] = << "C", "D" >>
    /\ metadata.resolve["C"] = << "B", "D" >>
    /\ processed_packages = Pkgs

\* Some declaration of an in-scope package has an absolute source path or
\* an absolute resolved output path.
AbsoluteDeclared ==
    \E p \in Pkgs :
        /\ \E i \in DOMAIN ProvidedEntries(p) :
            /\ ~ProvidedEntries(p)[i].malformed
            /\ \/ is_absolute(ProvidedEntries(p)[i].crate_path)
               \/ is_absolute(unwrap_or(ProvidedEntries(p)[i].output_path,
                                        ProvidedEntries(p)[i].crate_path))
        /\ p \in ReachablePackages

\* C13: absolute paths fail before any file-system effect: when a declaration
\* of an in-scope package has an absolute source path or an absolute resolved
\* output path, the registry construction never completes, the run ends with
\* an error, and up to and at the failure the run has created no directory
\* and copied or written no file: the output root is not resolved and the
\* file system is as it was when the run started.
C13_AbsolutePathsFailFirst ==
    AbsoluteDeclared
        => /\ ~RegistryComplete
           /\ pc = "exit" => result.kind \in {"Err", "Panic"}
           /\ resource_root = << >>
           /\ fs = FsAtStart
           /\ Collections = << >>

\* C13 witness: the run failed on the absolute output path that B declares,
\* after the declaration of C had entered the registry; nothing was created.
C13_Witness ==
    /\ pc = "exit"
    /\ AbsoluteDeclared
    /\ result = Err("absolute output path", "B")
    /\ DOMAIN declared_resources # {}
    /\ ~exists(fs, DefaultRootLocation)
    /\ fs = FsAtStart

\* C14: postcondition of a successful run: after a run that processed at
\* least one requirement returns success, for every requirement of the list
\* the file at the output root joined with the output path of its resource
\* has the content of the source file of the resource, also when two
\* required resources with different content declare one output path.
C14_SuccessPostcondition ==
    (pc = "exit" /\ result = Ok /\ Len(resolved_resources) >= 1)
        => \A i \in DOMAIN resolved_resources :
            /\ ResolvedTarget(fs, i) \in DOMAIN fs.files
            /\ ResolvedSource(fs, i) \in DOMAIN fs.files
            /\ Bytes(fs.files[ResolvedTarget(fs, i)])
                = Bytes(fs.files[ResolvedSource(fs, i)])

====
